---- MODULE Spec2Model ----
(***************************************************************************)
(* Model of the concurrent scan orchestration of the port scanner:         *)
(* PortScanner.Scan (src/main.go:251-295) and the goroutines it launches,  *)
(* WorkerTCP, WorkerUDP and WorkerICMP (src/main.go:105-163), over the     *)
(* buffered channels NewTarget builds (src/main.go:231-243), and main's    *)
(* frame around it: NewTarget (217-244) before Scan, writeResultsToFile    *)
(* (309-354) after it.                                                     *)
(*                                                                         *)
(* Every channel operation of the source is one atomic step.  A probe      *)
(* (ScanPortTCP, ScanUDP, ScanICMP) is a local computation of the step     *)
(* that dequeues its port or address; whether the network answers it is    *)
(* an input of that step, chosen freely.                                   *)
(***************************************************************************)
EXTENDS Naturals, Integers, Sequences, FiniteSets, TLC

\* ---------------------------------------------------------------- bounds
MaxWorkers == 1      \* NumWorkers ranges over 0..MaxWorkers
MaxPorts == 2        \* Ports is 1..n for some n in 0..MaxPorts
MaxIPs == 2          \* IPs holds n distinct addresses, n in 1..MaxIPs

\* capacity of PortChannel, ResultChannel, OpenPorts and OpenPortsUDP:
\* len(ports) of the list NewTarget builds
PortCap == 65535

PortUniverse == 1..MaxPorts
IPUniverse == 1..MaxIPs

TCPW == {<<"tcp", i>> : i \in 1..MaxWorkers}
UDPW == {<<"udp", i>> : i \in 1..MaxWorkers}
ICMPW == {<<"icmp", i>> : i \in 1..MaxIPs}
PortWorkers == TCPW \cup UDPW
AllWorkers == PortWorkers \cup ICMPW

Range(s) == {s[k] : k \in 1..Len(s)}

\* the domains a caller may name
Domains == {"localhost", "example.com"}

\* BuildPorts whose loop starts at port 0
BuildPortsFromZero(port, last, ports) ==
    [k \in 1..(last + 1) |-> k - 1]

\* for port := 1; port <= 65535; port++ { ports = append(ports, port) },
\* entered with the loop variable at port and the slice at ports; last
\* stands for the literal 65535
RECURSIVE BuildPorts(_, _, _)
BuildPorts(port, last, ports) ==
    IF port <= last
    THEN BuildPorts(port + 1, last, Append(ports, port))
    ELSE ports

\* the list NewTarget's loop builds, for port := 1; port <= n; port++
PortList(n) == BuildPorts(1, n, <<>>)

\* the addresses net.LookupHost returns, n of them, pairwise distinct
IPList(n) == [k \in 1..n |-> k]

RECURSIVE SumOver(_, _)
SumOver(f, S) ==
    IF S = {} THEN 0
    ELSE LET x == CHOOSE y \in S : TRUE
         IN  f[x] + SumOver(f, S \ {x})

\* ------------------------------------------------------------- the state
VARIABLES
    argDomain, argWorkers, portRange,       \* what NewTarget is called with
    lookupErr,                              \* net.LookupHost returned an error
    calls,                                  \* how many times Scan was called
    Domain, Ports, IPs, NumWorkers,         \* PortScanner fields
    PortChannel, portClosed,
    ipChannel, ipClosed,
    ResultChannel,
    OpenPorts, openClosed,
    OpenPortsUDP, openUDPClosed,
    ICMPResults, icmpClosed,
    Done,
    scanPC, launched, icmpLaunched, enqueued, ipsSent, drained, doneCount,
    pc, cur, state,                         \* the workers' position and locals
    tcpRecv, udpRecv, printed, resultTokens,  \* history of the port workers
    icmpRecords, handled,                     \* history of the ICMP workers
    doneSends, lateOps,                       \* history of completion
    dialed,                                   \* the addresses the probes dialled
    sinkPC, file,                             \* writeResultsToFile and output.txt
    mockPC, mockCur, testIPChannel            \* TestScan's mock workers and its ipChannel

scannerVars == <<argDomain, argWorkers, portRange, lookupErr, calls,
                 Domain, Ports, IPs, NumWorkers>>
sinkVars == <<sinkPC, file>>
mockVars == <<mockPC, mockCur, testIPChannel>>
chanVars == <<PortChannel, portClosed, ipChannel, ipClosed, ResultChannel,
              OpenPorts, openClosed, OpenPortsUDP, openUDPClosed,
              ICMPResults, icmpClosed, Done>>
scanVars == <<scanPC, launched, icmpLaunched, enqueued, ipsSent, drained, doneCount>>
workerVars == <<pc, cur, state>>
histVars == <<tcpRecv, udpRecv, printed, resultTokens, icmpRecords, handled, doneSends, lateOps>>
vars == <<scannerVars, chanVars, scanVars, workerVars, histVars, dialed, sinkVars,
          mockVars>>

\* ------------------------------------------------- service lookup (external)
\* service.Services, the static port -> service-name table
Services == (1 :> "tcpmux")

\* service.DetectService(port, services)
DetectService(port, services) ==
    IF port \in DOMAIN services
    THEN [Port |-> port, Service |-> services[port], Response |-> "Service Detected"]
    ELSE [Port |-> port, Service |-> "Unknown", Response |-> "Service Not Detected"]

\* ------------------------------------------------------------ the probes
\* ScanPortTCP: "Open" when the dial succeeds, "Closed" on any error
ScanPortTCP(dialOK) == IF dialOK THEN "Open" ELSE "Closed"

\* ScanUDP returns nil when a reply is read, an error otherwise
ScanUDP(replied) == IF replied THEN "nil" ELSE "err"

\* ScanICMP: "Reachable" when the dial succeeds, "Unreachable" otherwise
ScanICMP(dialOK) == IF dialOK THEN "Reachable" ELSE "Unreachable"

\* fmt.Sprintf("IP: %s, Response: %s", ip, state)
ICMPRecord(ip, st) == <<"IP: ", ip, ", Response: ", st>>

\* fmt.Sprintf("%s:%d", ip, port), the address a TCP or UDP probe dials
Address(host, port) == <<host, ":", port>>

\* the ip / domain argument Scan gives every WorkerTCP and WorkerUDP
ScanWorkerIP == ""

\* ------------------------------------------------------ channel capacities
\* IPCap of make(chan string, len(ips)-1)
IPCapShort == Len(IPs) - 1

\* make(chan string, len(ips)) for ICMPResults and for Scan's ipChannel
IPCap == Len(IPs)
\* make(chan bool, numWorkers*2+len(ips))
DoneCap == NumWorkers * 2 + Len(IPs)
\* DoneThreshold counting one worker too many
DoneThresholdOver == NumWorkers * 2 + Len(IPs) + 1

\* DoneThreshold counting one token per TCP/UDP pair
DoneThresholdUnder == NumWorkers + Len(IPs)

\* the number of completion tokens Scan waits for
DoneThreshold == NumWorkers * 2 + Len(IPs)

\* Dequeue that reads the head and leaves it in the channel
DequeuePeek(ch) == ch

\* the value a receive leaves in the channel
Dequeue(ch) == Tail(ch)

Bump(f, x) == [f EXCEPT ![x] = @ + 1]

\* -------------------------------------------------------------- NewTarget
\* the PortScanner NewTarget returns when net.LookupHost answered ips
NewTarget(domain, numWorkers, ips, last) ==
    [Domain |-> domain, IPs |-> ips, Ports |-> PortList(last), NumWorkers |-> numWorkers]

\* return nil, err: there is no scanner
NoScanner == [Domain |-> "", IPs |-> <<>>, Ports |-> <<>>, NumWorkers |-> 0]

\* main that goes on to Scan whatever NewTarget returned
MainIgnoresError(err) == "start"

\* main after NewTarget: print the error and return, or call target.Scan()
MainAfterNewTarget(err) == IF err THEN "noTarget" ELSE "start"

\* The program after the call of NewTarget: the scanner's fields (the
\* port range scaled to portRange), every channel empty and open.
ProgramInit ==
    /\ argDomain \in Domains
    /\ argWorkers \in 0..MaxWorkers
    /\ portRange \in 0..MaxPorts
    /\ lookupErr \in BOOLEAN
    /\ \E ips \in {IPList(n) : n \in 1..MaxIPs} :
          LET t == NewTarget(argDomain, argWorkers, ips, portRange)
          IN  /\ Domain = IF lookupErr THEN NoScanner.Domain ELSE t.Domain
              /\ IPs = IF lookupErr THEN NoScanner.IPs ELSE t.IPs
              /\ Ports = IF lookupErr THEN NoScanner.Ports ELSE t.Ports
              /\ NumWorkers = IF lookupErr THEN NoScanner.NumWorkers ELSE t.NumWorkers
    /\ calls = 1
    /\ dialed = {}
    /\ sinkPC = "idle" /\ file = <<>>
    /\ PortChannel = <<>> /\ portClosed = FALSE
    /\ ipChannel = <<>> /\ ipClosed = FALSE
    /\ ResultChannel = <<>>
    /\ OpenPorts = <<>> /\ openClosed = FALSE
    /\ OpenPortsUDP = <<>> /\ openUDPClosed = FALSE
    /\ ICMPResults = <<>> /\ icmpClosed = FALSE
    /\ Done = <<>>
    /\ scanPC = MainAfterNewTarget(lookupErr)
    /\ launched = 0 /\ icmpLaunched = 0 /\ enqueued = 0 /\ ipsSent = 0
    /\ drained = 0 /\ doneCount = 0
    /\ pc = [w \in AllWorkers |-> "unborn"]
    /\ cur = [w \in AllWorkers |-> 0]
    /\ state = [w \in AllWorkers |-> "none"]
    /\ tcpRecv = [p \in PortUniverse |-> 0]
    /\ udpRecv = [p \in PortUniverse |-> 0]
    /\ printed = [x \in {"tcp", "udp"} \X PortUniverse \X {"Open", "Closed"} |-> 0]
    /\ resultTokens = [p \in PortUniverse |-> 0]
    /\ icmpRecords = [a \in IPUniverse |-> 0]
    /\ handled = [w \in ICMPW |-> 0]
    /\ doneSends = [w \in AllWorkers |-> 0]
    /\ lateOps = [w \in AllWorkers |-> 0]

\* the three mock workers of TestScan
Mocks == {"tcp", "udp", "icmp"}

\* main starts no mock worker
Init ==
    /\ ProgramInit
    /\ mockPC = [m \in Mocks |-> "unborn"]
    /\ mockCur = [m \in Mocks |-> 0]
    /\ testIPChannel = <<>>

\* ------------------------------------------------------------------ Scan
\* go WorkerTCP(...); go WorkerUDP(...)   (one loop iteration)
ScanLaunchPortWorkers ==
    /\ scanPC = "start"
    /\ launched < NumWorkers
    /\ launched' = launched + 1
    /\ pc' = [pc EXCEPT ![<<"tcp", launched + 1>>] = "recv",
                        ![<<"udp", launched + 1>>] = "recv"]
    /\ UNCHANGED <<scannerVars, mockVars, sinkVars, dialed, chanVars, histVars, cur, state,
                   scanPC, icmpLaunched, enqueued, ipsSent, drained, doneCount>>

\* go WorkerICMP(ipChannel, t.ICMPResults, t.Done)   (one loop iteration)
ScanLaunchICMP ==
    /\ scanPC = "start"
    /\ launched >= NumWorkers
    /\ icmpLaunched < Len(IPs)
    /\ icmpLaunched' = icmpLaunched + 1
    /\ pc' = [pc EXCEPT ![<<"icmp", icmpLaunched + 1>>] = "recv"]
    /\ UNCHANGED <<scannerVars, mockVars, sinkVars, dialed, chanVars, histVars, cur, state,
                   scanPC, launched, enqueued, ipsSent, drained, doneCount>>

\* t.PortChannel <- port   (one loop iteration)
ScanEnqueuePort ==
    /\ scanPC = "start"
    /\ launched >= NumWorkers
    /\ icmpLaunched >= Len(IPs)
    /\ enqueued < Len(Ports)
    /\ IF portClosed
       THEN /\ scanPC' = "panic"
            /\ UNCHANGED <<PortChannel, enqueued>>
       ELSE /\ Len(PortChannel) < PortCap
            /\ PortChannel' = Append(PortChannel, Ports[enqueued + 1])
            /\ enqueued' = enqueued + 1
            /\ UNCHANGED scanPC
    /\ UNCHANGED <<scannerVars, mockVars, sinkVars, dialed, histVars, workerVars,
                   portClosed, ipChannel, ipClosed, ResultChannel,
                   OpenPorts, openClosed, OpenPortsUDP, openUDPClosed,
                   ICMPResults, icmpClosed, Done,
                   launched, icmpLaunched, ipsSent, drained, doneCount>>

\* ScanClosePortChannel with the close placed ahead of the enqueue loop
ScanClosePortChannelEarly ==
    /\ scanPC = "start"
    /\ launched >= NumWorkers
    /\ icmpLaunched >= Len(IPs)
    /\ ~portClosed \/ enqueued >= Len(Ports)
    /\ portClosed' = TRUE
    /\ scanPC' = IF enqueued >= Len(Ports) THEN "ips" ELSE "start"
    /\ UNCHANGED <<scannerVars, mockVars, sinkVars, dialed, histVars, workerVars,
                   PortChannel, ipChannel, ipClosed, ResultChannel,
                   OpenPorts, openClosed, OpenPortsUDP, openUDPClosed,
                   ICMPResults, icmpClosed, Done,
                   launched, icmpLaunched, enqueued, ipsSent, drained, doneCount>>

\* close(t.PortChannel)
ScanClosePortChannel ==
    /\ scanPC = "start"
    /\ launched >= NumWorkers
    /\ icmpLaunched >= Len(IPs)
    /\ enqueued >= Len(Ports)
    /\ IF portClosed
       THEN scanPC' = "panic" /\ UNCHANGED portClosed
       ELSE scanPC' = "ips" /\ portClosed' = TRUE
    /\ UNCHANGED <<scannerVars, mockVars, sinkVars, dialed, histVars, workerVars,
                   PortChannel, ipChannel, ipClosed, ResultChannel,
                   OpenPorts, openClosed, OpenPortsUDP, openUDPClosed,
                   ICMPResults, icmpClosed, Done,
                   launched, icmpLaunched, enqueued, ipsSent, drained, doneCount>>

\* ScanSendIP sending the first address in every iteration
ScanSendIPFirst ==
    /\ scanPC = "ips"
    /\ ipsSent < Len(IPs)
    /\ Len(ipChannel) < IPCap
    /\ ipChannel' = Append(ipChannel, IPs[1])
    /\ ipsSent' = ipsSent + 1
    /\ UNCHANGED <<scannerVars, mockVars, sinkVars, dialed, histVars, workerVars,
                   PortChannel, portClosed, ipClosed, ResultChannel,
                   OpenPorts, openClosed, OpenPortsUDP, openUDPClosed,
                   ICMPResults, icmpClosed, Done,
                   scanPC, launched, icmpLaunched, enqueued, drained, doneCount>>

\* ipChannel <- ip   (one loop iteration)
ScanSendIP ==
    /\ scanPC = "ips"
    /\ ipsSent < Len(IPs)
    /\ IF ipClosed
       THEN /\ scanPC' = "panic"
            /\ UNCHANGED <<ipChannel, ipsSent>>
       ELSE /\ Len(ipChannel) < IPCap
            /\ ipChannel' = Append(ipChannel, IPs[ipsSent + 1])
            /\ ipsSent' = ipsSent + 1
            /\ UNCHANGED scanPC
    /\ UNCHANGED <<scannerVars, mockVars, sinkVars, dialed, histVars, workerVars,
                   PortChannel, portClosed, ipClosed, ResultChannel,
                   OpenPorts, openClosed, OpenPortsUDP, openUDPClosed,
                   ICMPResults, icmpClosed, Done,
                   launched, icmpLaunched, enqueued, drained, doneCount>>

\* close(ipChannel)
ScanCloseIPChannel ==
    /\ scanPC = "ips"
    /\ ipsSent >= Len(IPs)
    /\ ipClosed' = TRUE
    /\ scanPC' = "wait"
    /\ UNCHANGED <<scannerVars, mockVars, sinkVars, dialed, histVars, workerVars,
                   PortChannel, portClosed, ipChannel, ResultChannel,
                   OpenPorts, openClosed, OpenPortsUDP, openUDPClosed,
                   ICMPResults, icmpClosed, Done,
                   launched, icmpLaunched, enqueued, ipsSent, drained, doneCount>>

\* ScanRecvResult that does not wait for a token (select with a default case)
ScanRecvResultNoWait ==
    /\ scanPC = "wait"
    /\ drained < Len(Ports)
    /\ ResultChannel' = IF ResultChannel # <<>> THEN Dequeue(ResultChannel) ELSE ResultChannel
    /\ drained' = drained + 1
    /\ UNCHANGED <<scannerVars, mockVars, sinkVars, dialed, histVars, workerVars,
                   PortChannel, portClosed, ipChannel, ipClosed,
                   OpenPorts, openClosed, OpenPortsUDP, openUDPClosed,
                   ICMPResults, icmpClosed, Done,
                   scanPC, launched, icmpLaunched, enqueued, ipsSent, doneCount>>

\* for range t.Ports { <-t.ResultChannel }   (one loop iteration)
ScanRecvResult ==
    /\ scanPC = "wait"
    /\ drained < Len(Ports)
    /\ ResultChannel # <<>>
    /\ ResultChannel' = Dequeue(ResultChannel)
    /\ drained' = drained + 1
    /\ UNCHANGED <<scannerVars, mockVars, sinkVars, dialed, histVars, workerVars,
                   PortChannel, portClosed, ipChannel, ipClosed,
                   OpenPorts, openClosed, OpenPortsUDP, openUDPClosed,
                   ICMPResults, icmpClosed, Done,
                   scanPC, launched, icmpLaunched, enqueued, ipsSent, doneCount>>

\* for doneCount < t.NumWorkers*2+len(t.IPs) { <-t.Done; doneCount++ }
ScanRecvDone ==
    /\ scanPC = "wait"
    /\ drained >= Len(Ports)
    /\ doneCount < DoneThreshold
    /\ Done # <<>>
    /\ Done' = Dequeue(Done)
    /\ doneCount' = doneCount + 1
    /\ UNCHANGED <<scannerVars, mockVars, sinkVars, dialed, histVars, workerVars,
                   PortChannel, portClosed, ipChannel, ipClosed, ResultChannel,
                   OpenPorts, openClosed, OpenPortsUDP, openUDPClosed,
                   ICMPResults, icmpClosed,
                   scanPC, launched, icmpLaunched, enqueued, ipsSent, drained>>

\* ScanCloseOpenPorts without the wait for the completion tokens
ScanCloseOpenPortsEarly ==
    /\ scanPC = "wait"
    /\ drained >= Len(Ports)
    /\ openClosed' = TRUE
    /\ scanPC' = "closeUDP"
    /\ UNCHANGED <<scannerVars, mockVars, sinkVars, dialed, histVars, workerVars,
                   PortChannel, portClosed, ipChannel, ipClosed, ResultChannel,
                   OpenPorts, OpenPortsUDP, openUDPClosed,
                   ICMPResults, icmpClosed, Done,
                   launched, icmpLaunched, enqueued, ipsSent, drained, doneCount>>

\* close(t.OpenPorts)
ScanCloseOpenPorts ==
    /\ scanPC = "wait"
    /\ drained >= Len(Ports)
    /\ doneCount >= DoneThreshold
    /\ openClosed' = TRUE
    /\ scanPC' = "closeUDP"
    /\ UNCHANGED <<scannerVars, mockVars, sinkVars, dialed, histVars, workerVars,
                   PortChannel, portClosed, ipChannel, ipClosed, ResultChannel,
                   OpenPorts, OpenPortsUDP, openUDPClosed,
                   ICMPResults, icmpClosed, Done,
                   launched, icmpLaunched, enqueued, ipsSent, drained, doneCount>>

\* close(t.OpenPortsUDP)
ScanCloseOpenPortsUDP ==
    /\ scanPC = "closeUDP"
    /\ openUDPClosed' = TRUE
    /\ scanPC' = "closeICMP"
    /\ UNCHANGED <<scannerVars, mockVars, sinkVars, dialed, histVars, workerVars,
                   PortChannel, portClosed, ipChannel, ipClosed, ResultChannel,
                   OpenPorts, openClosed, OpenPortsUDP,
                   ICMPResults, icmpClosed, Done,
                   launched, icmpLaunched, enqueued, ipsSent, drained, doneCount>>

\* close(t.ICMPResults), then Scan returns
ScanCloseICMPResults ==
    /\ scanPC = "closeICMP"
    /\ icmpClosed' = TRUE
    /\ scanPC' = "returned"
    /\ UNCHANGED <<scannerVars, mockVars, sinkVars, dialed, histVars, workerVars,
                   PortChannel, portClosed, ipChannel, ipClosed, ResultChannel,
                   OpenPorts, openClosed, OpenPortsUDP, openUDPClosed,
                   ICMPResults, Done,
                   launched, icmpLaunched, enqueued, ipsSent, drained, doneCount>>

ScanStep ==
    \/ ScanLaunchPortWorkers
    \/ ScanLaunchICMP
    \/ ScanEnqueuePort
    \/ ScanClosePortChannel
    \/ ScanSendIP
    \/ ScanCloseIPChannel
    \/ ScanRecvResult
    \/ ScanRecvDone
    \/ ScanCloseOpenPorts
    \/ ScanCloseOpenPortsUDP
    \/ ScanCloseICMPResults

\* --------------------------------------------------------------- workers
\* the operation count of a worker that has already sent its completion token
Late(w) == IF doneSends[w] > 0 THEN Bump(lateOps, w) ELSE lateOps

\* the range variable and the locals of one loop iteration go out of scope
Forget(f, w, v) == [f EXCEPT ![w] = v]

\* SendDone after which the worker goes back to its loop
SendDoneAgain(w, ch, closed) ==
    /\ pc[w] = "recv"
    /\ ch = <<>>
    /\ closed
    /\ Len(Done) < DoneCap
    /\ Done' = Append(Done, TRUE)
    /\ doneSends' = Bump(doneSends, w)
    /\ lateOps' = Late(w)
    /\ pc' = pc

\* `for x := range ch` finds ch closed and empty, the loop ends, and the
\* worker's last statement runs: done <- true.  Once ch is closed and empty
\* it stays so, and leaving the loop changes nothing another goroutine can
\* see, so the two are one step.
SendDone(w, ch, closed) ==
    /\ pc[w] = "recv"
    /\ ch = <<>>
    /\ closed
    /\ Len(Done) < DoneCap
    /\ Done' = Append(Done, TRUE)
    /\ doneSends' = Bump(doneSends, w)
    /\ lateOps' = Late(w)
    /\ pc' = [pc EXCEPT ![w] = "exit"]

\* WorkerTCP: port := <-ports; state := ScanPortTCP(ip, port)
WorkerTCPRecv(w) ==
    /\ pc[w] = "recv"
    /\ PortChannel # <<>>
    /\ \E dialOK \in BOOLEAN :
           LET port == Head(PortChannel)
           IN  /\ cur' = [cur EXCEPT ![w] = port]
               /\ state' = [state EXCEPT ![w] = ScanPortTCP(dialOK)]
               /\ tcpRecv' = Bump(tcpRecv, port)
               /\ dialed' = dialed \cup {<<"tcp", Address(ScanWorkerIP, port)>>}
    /\ PortChannel' = Dequeue(PortChannel)
    /\ lateOps' = Late(w)
    /\ pc' = [pc EXCEPT ![w] = "result"]
    /\ UNCHANGED <<scannerVars, mockVars, sinkVars, scanVars,
                   portClosed, ipChannel, ipClosed, ResultChannel,
                   OpenPorts, openClosed, OpenPortsUDP, openUDPClosed,
                   ICMPResults, icmpClosed, Done,
                   udpRecv, printed, resultTokens, icmpRecords, handled, doneSends>>

\* WorkerTCPResult with results <- port inside the `if state == "Open"`
WorkerTCPResultOnlyOpen(w) ==
    /\ pc[w] = "result"
    /\ IF state[w] = "Open"
       THEN /\ Len(ResultChannel) < PortCap
            /\ ResultChannel' = Append(ResultChannel, cur[w])
            /\ resultTokens' = Bump(resultTokens, cur[w])
            /\ lateOps' = Late(w)
            /\ pc' = [pc EXCEPT ![w] = "open"]
            /\ UNCHANGED <<printed, cur, state>>
       ELSE /\ pc' = [pc EXCEPT ![w] = "recv"]
            /\ printed' = Bump(printed, <<"tcp", cur[w], state[w]>>)
            /\ cur' = Forget(cur, w, 0)
            /\ state' = Forget(state, w, "none")
            /\ UNCHANGED <<ResultChannel, resultTokens, lateOps>>
    /\ UNCHANGED <<scannerVars, mockVars, sinkVars, dialed, scanVars,
                   PortChannel, portClosed, ipChannel, ipClosed,
                   OpenPorts, openClosed, OpenPortsUDP, openUDPClosed,
                   ICMPResults, icmpClosed, Done,
                   tcpRecv, udpRecv, icmpRecords, handled, doneSends>>

\* WorkerTCP: results <- port; a Closed port is printed and the loop goes on
WorkerTCPResult(w) ==
    /\ pc[w] = "result"
    /\ Len(ResultChannel) < PortCap
    /\ ResultChannel' = Append(ResultChannel, cur[w])
    /\ resultTokens' = Bump(resultTokens, cur[w])
    /\ lateOps' = Late(w)
    /\ IF state[w] = "Open"
       THEN /\ pc' = [pc EXCEPT ![w] = "open"]
            /\ UNCHANGED <<printed, cur, state>>
       ELSE /\ pc' = [pc EXCEPT ![w] = "recv"]
            /\ printed' = Bump(printed, <<"tcp", cur[w], state[w]>>)
            /\ cur' = Forget(cur, w, 0)
            /\ state' = Forget(state, w, "none")
    /\ UNCHANGED <<scannerVars, mockVars, sinkVars, dialed, scanVars,
                   PortChannel, portClosed, ipChannel, ipClosed,
                   OpenPorts, openClosed, OpenPortsUDP, openUDPClosed,
                   ICMPResults, icmpClosed, Done,
                   tcpRecv, udpRecv, icmpRecords, handled, doneSends>>

\* WorkerTCPOpen that looks up the service of the port after the one it probed
WorkerTCPOpenNextPort(w) ==
    /\ pc[w] = "open"
    /\ IF openClosed
       THEN /\ pc' = [pc EXCEPT ![w] = "panic"]
            /\ UNCHANGED <<OpenPorts, printed, lateOps, cur, state>>
       ELSE /\ Len(OpenPorts) < PortCap
            /\ OpenPorts' = Append(OpenPorts, DetectService(cur[w] + 1, Services))
            /\ lateOps' = Late(w)
            /\ printed' = Bump(printed, <<"tcp", cur[w], state[w]>>)
            /\ cur' = Forget(cur, w, 0)
            /\ state' = Forget(state, w, "none")
            /\ pc' = [pc EXCEPT ![w] = "recv"]
    /\ UNCHANGED <<scannerVars, mockVars, sinkVars, dialed, scanVars,
                   PortChannel, portClosed, ipChannel, ipClosed, ResultChannel,
                   openClosed, OpenPortsUDP, openUDPClosed,
                   ICMPResults, icmpClosed, Done,
                   tcpRecv, udpRecv, resultTokens, icmpRecords, handled, doneSends>>

\* WorkerTCP: if state == "Open" { openPorts <- service }; the port is printed
WorkerTCPOpen(w) ==
    /\ pc[w] = "open"
    /\ IF openClosed
       THEN /\ pc' = [pc EXCEPT ![w] = "panic"]
            /\ UNCHANGED <<OpenPorts, printed, lateOps, cur, state>>
       ELSE /\ Len(OpenPorts) < PortCap
            /\ OpenPorts' = Append(OpenPorts, DetectService(cur[w], Services))
            /\ lateOps' = Late(w)
            /\ printed' = Bump(printed, <<"tcp", cur[w], state[w]>>)
            /\ cur' = Forget(cur, w, 0)
            /\ state' = Forget(state, w, "none")
            /\ pc' = [pc EXCEPT ![w] = "recv"]
    /\ UNCHANGED <<scannerVars, mockVars, sinkVars, dialed, scanVars,
                   PortChannel, portClosed, ipChannel, ipClosed, ResultChannel,
                   openClosed, OpenPortsUDP, openUDPClosed,
                   ICMPResults, icmpClosed, Done,
                   tcpRecv, udpRecv, resultTokens, icmpRecords, handled, doneSends>>

\* WorkerTCPDone that also closes its openPorts channel (defer close(openPorts))
WorkerTCPDoneCloses(w) ==
    /\ SendDone(w, PortChannel, portClosed)
    /\ openClosed' = TRUE
    /\ UNCHANGED <<scannerVars, mockVars, sinkVars, dialed, scanVars, cur, state,
                   PortChannel, portClosed, ipChannel, ipClosed, ResultChannel,
                   OpenPorts, OpenPortsUDP, openUDPClosed,
                   ICMPResults, icmpClosed,
                   tcpRecv, udpRecv, printed, resultTokens, icmpRecords, handled>>

\* WorkerTCP: the range ends; done <- true
WorkerTCPDone(w) ==
    /\ SendDone(w, PortChannel, portClosed)
    /\ UNCHANGED <<scannerVars, mockVars, sinkVars, dialed, scanVars, cur, state,
                   PortChannel, portClosed, ipChannel, ipClosed, ResultChannel,
                   OpenPorts, openClosed, OpenPortsUDP, openUDPClosed,
                   ICMPResults, icmpClosed,
                   tcpRecv, udpRecv, printed, resultTokens, icmpRecords, handled>>

\* WorkerUDPRecv whose openPorts <- service is outside the `if err == nil`
WorkerUDPRecvAlwaysOpen(w) ==
    /\ pc[w] = "recv"
    /\ PortChannel # <<>>
    /\ \E replied \in BOOLEAN :
           LET port == Head(PortChannel)
               st == IF ScanUDP(replied) = "nil" THEN "Open" ELSE "Closed"
           IN  /\ cur' = [cur EXCEPT ![w] = port]
               /\ state' = [state EXCEPT ![w] = st]
               /\ udpRecv' = Bump(udpRecv, port)
               /\ pc' = [pc EXCEPT ![w] = "open"]
               /\ dialed' = dialed \cup {<<"udp", Address(ScanWorkerIP, port)>>}
    /\ PortChannel' = Dequeue(PortChannel)
    /\ lateOps' = Late(w)
    /\ UNCHANGED <<scannerVars, mockVars, sinkVars, scanVars,
                   portClosed, ipChannel, ipClosed, ResultChannel,
                   OpenPorts, openClosed, OpenPortsUDP, openUDPClosed,
                   ICMPResults, icmpClosed, Done,
                   tcpRecv, printed, resultTokens, icmpRecords, handled, doneSends>>

\* WorkerUDPRecv that goes to results <- port at once, skipping openPorts <- service
WorkerUDPRecvTokenOnly(w) ==
    /\ pc[w] = "recv"
    /\ PortChannel # <<>>
    /\ \E replied \in BOOLEAN :
           LET port == Head(PortChannel)
               st == IF ScanUDP(replied) = "nil" THEN "Open" ELSE "Closed"
           IN  /\ cur' = [cur EXCEPT ![w] = port]
               /\ state' = [state EXCEPT ![w] = st]
               /\ udpRecv' = Bump(udpRecv, port)
               /\ pc' = [pc EXCEPT ![w] = "result"]
               /\ dialed' = dialed \cup {<<"udp", Address(ScanWorkerIP, port)>>}
    /\ PortChannel' = Dequeue(PortChannel)
    /\ lateOps' = Late(w)
    /\ UNCHANGED <<scannerVars, mockVars, sinkVars, scanVars,
                   portClosed, ipChannel, ipClosed, ResultChannel,
                   OpenPorts, openClosed, OpenPortsUDP, openUDPClosed,
                   ICMPResults, icmpClosed, Done,
                   tcpRecv, printed, resultTokens, icmpRecords, handled, doneSends>>

\* WorkerUDP: port := <-ports; err := ScanUDP(port, domain); state from err
WorkerUDPRecv(w) ==
    /\ pc[w] = "recv"
    /\ PortChannel # <<>>
    /\ \E replied \in BOOLEAN :
           LET port == Head(PortChannel)
               st == IF ScanUDP(replied) = "nil" THEN "Open" ELSE "Closed"
           IN  /\ cur' = [cur EXCEPT ![w] = port]
               /\ state' = [state EXCEPT ![w] = st]
               /\ udpRecv' = Bump(udpRecv, port)
               /\ pc' = [pc EXCEPT ![w] = IF st = "Open" THEN "open" ELSE "result"]
               /\ dialed' = dialed \cup {<<"udp", Address(ScanWorkerIP, port)>>}
    /\ PortChannel' = Dequeue(PortChannel)
    /\ lateOps' = Late(w)
    /\ UNCHANGED <<scannerVars, mockVars, sinkVars, scanVars,
                   portClosed, ipChannel, ipClosed, ResultChannel,
                   OpenPorts, openClosed, OpenPortsUDP, openUDPClosed,
                   ICMPResults, icmpClosed, Done,
                   tcpRecv, printed, resultTokens, icmpRecords, handled, doneSends>>

\* WorkerUDP: if err == nil { openPorts <- service }
WorkerUDPOpen(w) ==
    /\ pc[w] = "open"
    /\ IF openUDPClosed
       THEN /\ pc' = [pc EXCEPT ![w] = "panic"]
            /\ UNCHANGED <<OpenPortsUDP, lateOps>>
       ELSE /\ Len(OpenPortsUDP) < PortCap
            /\ OpenPortsUDP' = Append(OpenPortsUDP, DetectService(cur[w], Services))
            /\ lateOps' = Late(w)
            /\ pc' = [pc EXCEPT ![w] = "result"]
    /\ UNCHANGED <<scannerVars, mockVars, sinkVars, dialed, scanVars, cur, state,
                   PortChannel, portClosed, ipChannel, ipClosed, ResultChannel,
                   OpenPorts, openClosed, openUDPClosed,
                   ICMPResults, icmpClosed, Done,
                   tcpRecv, udpRecv, printed, resultTokens, icmpRecords, handled,
                   doneSends>>

\* WorkerUDPResult whose token overtakes the tokens already buffered
WorkerUDPResultOvertakes(w) ==
    /\ pc[w] = "result"
    /\ Len(ResultChannel) < PortCap
    /\ ResultChannel' = <<cur[w]>> \o ResultChannel
    /\ resultTokens' = Bump(resultTokens, cur[w])
    /\ lateOps' = Late(w)
    /\ printed' = Bump(printed, <<"udp", cur[w], state[w]>>)
    /\ cur' = Forget(cur, w, 0)
    /\ state' = Forget(state, w, "none")
    /\ pc' = [pc EXCEPT ![w] = "recv"]
    /\ UNCHANGED <<scannerVars, mockVars, sinkVars, dialed, scanVars,
                   PortChannel, portClosed, ipChannel, ipClosed,
                   OpenPorts, openClosed, OpenPortsUDP, openUDPClosed,
                   ICMPResults, icmpClosed, Done,
                   tcpRecv, udpRecv, icmpRecords, handled, doneSends>>

\* WorkerUDP: results <- port; the port is printed and the loop goes on
WorkerUDPResult(w) ==
    /\ pc[w] = "result"
    /\ Len(ResultChannel) < PortCap
    /\ ResultChannel' = Append(ResultChannel, cur[w])
    /\ resultTokens' = Bump(resultTokens, cur[w])
    /\ lateOps' = Late(w)
    /\ printed' = Bump(printed, <<"udp", cur[w], state[w]>>)
    /\ cur' = Forget(cur, w, 0)
    /\ state' = Forget(state, w, "none")
    /\ pc' = [pc EXCEPT ![w] = "recv"]
    /\ UNCHANGED <<scannerVars, mockVars, sinkVars, dialed, scanVars,
                   PortChannel, portClosed, ipChannel, ipClosed,
                   OpenPorts, openClosed, OpenPortsUDP, openUDPClosed,
                   ICMPResults, icmpClosed, Done,
                   tcpRecv, udpRecv, icmpRecords, handled, doneSends>>

\* WorkerUDP: the range ends; done <- true
WorkerUDPDone(w) ==
    /\ SendDone(w, PortChannel, portClosed)
    /\ UNCHANGED <<scannerVars, mockVars, sinkVars, dialed, scanVars, cur, state,
                   PortChannel, portClosed, ipChannel, ipClosed, ResultChannel,
                   OpenPorts, openClosed, OpenPortsUDP, openUDPClosed,
                   ICMPResults, icmpClosed,
                   tcpRecv, udpRecv, printed, resultTokens, icmpRecords, handled>>

\* WorkerICMP: ip := <-ips; state := ScanICMP(ip)
WorkerICMPRecv(w) ==
    /\ pc[w] = "recv"
    /\ ipChannel # <<>>
    /\ \E dialOK \in BOOLEAN :
           /\ cur' = [cur EXCEPT ![w] = Head(ipChannel)]
           /\ state' = [state EXCEPT ![w] = ScanICMP(dialOK)]
    /\ ipChannel' = Dequeue(ipChannel)
    /\ lateOps' = Late(w)
    /\ pc' = [pc EXCEPT ![w] = "result"]
    /\ UNCHANGED <<scannerVars, mockVars, sinkVars, dialed, scanVars,
                   PortChannel, portClosed, ipClosed, ResultChannel,
                   OpenPorts, openClosed, OpenPortsUDP, openUDPClosed,
                   ICMPResults, icmpClosed, Done,
                   tcpRecv, udpRecv, printed, resultTokens, icmpRecords, handled,
                   doneSends>>

\* WorkerICMP: results <- fmt.Sprintf("IP: %s, Response: %s", ip, state)
WorkerICMPResult(w) ==
    /\ pc[w] = "result"
    /\ IF icmpClosed
       THEN /\ pc' = [pc EXCEPT ![w] = "panic"]
            /\ UNCHANGED <<ICMPResults, icmpRecords, handled, lateOps, cur, state>>
       ELSE /\ Len(ICMPResults) < IPCap
            /\ ICMPResults' = Append(ICMPResults, ICMPRecord(cur[w], state[w]))
            /\ icmpRecords' = Bump(icmpRecords, cur[w])
            /\ handled' = Bump(handled, w)
            /\ lateOps' = Late(w)
            /\ cur' = Forget(cur, w, 0)
            /\ state' = Forget(state, w, "none")
            /\ pc' = [pc EXCEPT ![w] = "recv"]
    /\ UNCHANGED <<scannerVars, mockVars, sinkVars, dialed, scanVars,
                   PortChannel, portClosed, ipChannel, ipClosed, ResultChannel,
                   OpenPorts, openClosed, OpenPortsUDP, openUDPClosed,
                   icmpClosed, Done,
                   tcpRecv, udpRecv, printed, resultTokens, doneSends>>

\* WorkerICMPDone leaving the loop as soon as the address queue is empty
WorkerICMPDoneEager(w) ==
    /\ SendDone(w, ipChannel, TRUE)
    /\ UNCHANGED <<scannerVars, mockVars, sinkVars, dialed, scanVars, cur, state,
                   PortChannel, portClosed, ipChannel, ipClosed, ResultChannel,
                   OpenPorts, openClosed, OpenPortsUDP, openUDPClosed,
                   ICMPResults, icmpClosed,
                   tcpRecv, udpRecv, printed, resultTokens, icmpRecords, handled>>

\* WorkerICMP: the range ends; done <- true
WorkerICMPDone(w) ==
    /\ SendDone(w, ipChannel, ipClosed)
    /\ UNCHANGED <<scannerVars, mockVars, sinkVars, dialed, scanVars, cur, state,
                   PortChannel, portClosed, ipChannel, ipClosed, ResultChannel,
                   OpenPorts, openClosed, OpenPortsUDP, openUDPClosed,
                   ICMPResults, icmpClosed,
                   tcpRecv, udpRecv, printed, resultTokens, icmpRecords, handled>>

WorkerTCP(w) ==
    \/ WorkerTCPRecv(w)
    \/ WorkerTCPResult(w)
    \/ WorkerTCPOpen(w)
    \/ WorkerTCPDone(w)

WorkerUDP(w) ==
    \/ WorkerUDPRecv(w)
    \/ WorkerUDPOpen(w)
    \/ WorkerUDPResult(w)
    \/ WorkerUDPDone(w)

WorkerICMP(w) ==
    \/ WorkerICMPRecv(w)
    \/ WorkerICMPResult(w)
    \/ WorkerICMPDone(w)

WorkerStep(w) ==
    IF w \in TCPW THEN WorkerTCP(w)
    ELSE IF w \in UDPW THEN WorkerUDP(w)
    ELSE WorkerICMP(w)

\* ------------------------------------------------- writeResultsToFile, main
\* main that writes the report while Scan is still running
MainCallsSinkEarly == scanPC # "noTarget"

\* main calls writeResultsToFile after target.Scan() has returned
MainCallsSink == scanPC = "returned"

\* the section headers; like every line, a text and its "\n"
HeaderTCP == <<"Open TCP Ports with Services:", "\n">>
HeaderUDP == <<"Open UDP Ports with Services:", "\n">>
HeaderICMP == <<"ICMP Reachability Results:", "\n">>

\* fmt.Sprintf("Port %d (TCP) is Open, Service: %s\n", service.Port, service.Service)
TCPLine(service) == <<"Port ", service.Port, " (TCP) is Open, Service: ", service.Service, "\n">>

\* fmt.Sprintf("Port %d (UDP) is Open, Service: %s\n", service.Port, service.Service)
UDPLine(service) == <<"Port ", service.Port, " (UDP) is Open, Service: ", service.Service, "\n">>

\* fmt.Sprintf("%s\n", result)
ICMPLine(result) == result \o <<"\n">>

\* file.WriteString(line): the line is appended unless the write fails
WriteString(f, line, ok) == IF ok THEN Append(f, line) ELSE f

\* if err != nil { return fmt.Errorf(...) }, else go on at next
AfterWrite(ok, next) == IF ok THEN next ELSE "failed"

\* os.Create(fileName), then the TCP header
SinkCreate ==
    /\ MainCallsSink
    /\ sinkPC = "idle"
    /\ \E created \in BOOLEAN, ok \in BOOLEAN :
          /\ file' = IF created THEN WriteString(<<>>, HeaderTCP, ok) ELSE file
          /\ sinkPC' = IF created THEN AfterWrite(ok, "tcp") ELSE "failed"
    /\ UNCHANGED <<scannerVars, mockVars, chanVars, scanVars, workerVars, histVars, dialed>>

\* for service := range t.OpenPorts { file.WriteString(...) }   (one iteration)
SinkWriteTCP ==
    /\ sinkPC = "tcp"
    /\ OpenPorts # <<>>
    /\ \E ok \in BOOLEAN :
          /\ file' = WriteString(file, TCPLine(Head(OpenPorts)), ok)
          /\ sinkPC' = AfterWrite(ok, "tcp")
    /\ OpenPorts' = Dequeue(OpenPorts)
    /\ UNCHANGED <<scannerVars, mockVars, scanVars, workerVars, histVars, dialed,
                   PortChannel, portClosed, ipChannel, ipClosed, ResultChannel,
                   openClosed, OpenPortsUDP, openUDPClosed,
                   ICMPResults, icmpClosed, Done>>

\* the range over t.OpenPorts ends (closed and empty); then the UDP header
SinkEndTCP ==
    /\ sinkPC = "tcp"
    /\ OpenPorts = <<>>
    /\ openClosed
    /\ \E ok \in BOOLEAN :
          /\ file' = WriteString(file, HeaderUDP, ok)
          /\ sinkPC' = AfterWrite(ok, "udp")
    /\ UNCHANGED <<scannerVars, mockVars, chanVars, scanVars, workerVars, histVars, dialed>>

\* for service := range t.OpenPortsUDP { file.WriteString(...) }   (one iteration)
SinkWriteUDP ==
    /\ sinkPC = "udp"
    /\ OpenPortsUDP # <<>>
    /\ \E ok \in BOOLEAN :
          /\ file' = WriteString(file, UDPLine(Head(OpenPortsUDP)), ok)
          /\ sinkPC' = AfterWrite(ok, "udp")
    /\ OpenPortsUDP' = Dequeue(OpenPortsUDP)
    /\ UNCHANGED <<scannerVars, mockVars, scanVars, workerVars, histVars, dialed,
                   PortChannel, portClosed, ipChannel, ipClosed, ResultChannel,
                   OpenPorts, openClosed, openUDPClosed,
                   ICMPResults, icmpClosed, Done>>

\* the range over t.OpenPortsUDP ends; then the ICMP header
SinkEndUDP ==
    /\ sinkPC = "udp"
    /\ OpenPortsUDP = <<>>
    /\ openUDPClosed
    /\ \E ok \in BOOLEAN :
          /\ file' = WriteString(file, HeaderICMP, ok)
          /\ sinkPC' = AfterWrite(ok, "icmp")
    /\ UNCHANGED <<scannerVars, mockVars, chanVars, scanVars, workerVars, histVars, dialed>>

\* for result := range t.ICMPResults { file.WriteString(...) }   (one iteration)
SinkWriteICMP ==
    /\ sinkPC = "icmp"
    /\ ICMPResults # <<>>
    /\ \E ok \in BOOLEAN :
          /\ file' = WriteString(file, ICMPLine(Head(ICMPResults)), ok)
          /\ sinkPC' = AfterWrite(ok, "icmp")
    /\ ICMPResults' = Dequeue(ICMPResults)
    /\ UNCHANGED <<scannerVars, mockVars, scanVars, workerVars, histVars, dialed,
                   PortChannel, portClosed, ipChannel, ipClosed, ResultChannel,
                   OpenPorts, openClosed, OpenPortsUDP, openUDPClosed,
                   icmpClosed, Done>>

\* the range over t.ICMPResults ends; return nil
SinkEndICMP ==
    /\ sinkPC = "icmp"
    /\ ICMPResults = <<>>
    /\ icmpClosed
    /\ sinkPC' = "done"
    /\ UNCHANGED <<scannerVars, mockVars, chanVars, scanVars, workerVars, histVars, dialed, file>>

SinkStep ==
    \/ SinkCreate
    \/ SinkWriteTCP
    \/ SinkEndTCP
    \/ SinkWriteUDP
    \/ SinkEndUDP
    \/ SinkWriteICMP
    \/ SinkEndICMP

Next ==
    \/ ScanLaunchPortWorkers
    \/ ScanLaunchICMP
    \/ ScanEnqueuePort
    \/ ScanClosePortChannel
    \/ ScanSendIP
    \/ ScanCloseIPChannel
    \/ ScanRecvResult
    \/ ScanRecvDone
    \/ ScanCloseOpenPorts
    \/ ScanCloseOpenPortsUDP
    \/ ScanCloseICMPResults
    \/ \E w \in TCPW : WorkerTCPRecv(w)
    \/ \E w \in TCPW : WorkerTCPResult(w)
    \/ \E w \in TCPW : WorkerTCPOpen(w)
    \/ \E w \in TCPW : WorkerTCPDone(w)
    \/ \E w \in UDPW : WorkerUDPRecv(w)
    \/ \E w \in UDPW : WorkerUDPOpen(w)
    \/ \E w \in UDPW : WorkerUDPResult(w)
    \/ \E w \in UDPW : WorkerUDPDone(w)
    \/ \E w \in ICMPW : WorkerICMPRecv(w)
    \/ \E w \in ICMPW : WorkerICMPResult(w)
    \/ \E w \in ICMPW : WorkerICMPDone(w)
    \/ SinkCreate
    \/ SinkWriteTCP
    \/ SinkEndTCP
    \/ SinkWriteUDP
    \/ SinkEndUDP
    \/ SinkWriteICMP
    \/ SinkEndICMP

Spec == Init /\ [][Next]_vars

\* ---------------------------------------------------- a caller reusing t
\* ScanAgain that finds every channel of the scanner made anew
ScanAgainFreshChannels ==
    /\ scanPC = "returned"
    /\ sinkPC = "idle"
    /\ calls = 1
    /\ calls' = 2
    /\ scanPC' = "start"
    /\ launched' = 0 /\ icmpLaunched' = 0 /\ enqueued' = 0 /\ ipsSent' = 0
    /\ drained' = 0 /\ doneCount' = 0
    /\ ipChannel' = <<>> /\ ipClosed' = FALSE
    /\ PortChannel' = <<>> /\ portClosed' = FALSE
    /\ OpenPorts' = <<>> /\ openClosed' = FALSE
    /\ OpenPortsUDP' = <<>> /\ openUDPClosed' = FALSE
    /\ ICMPResults' = <<>> /\ icmpClosed' = FALSE
    /\ pc' = [w \in AllWorkers |-> "unborn"]
    /\ UNCHANGED <<argDomain, argWorkers, portRange, lookupErr,
                   Domain, Ports, IPs, NumWorkers, mockVars,
                   ResultChannel, Done,
                   cur, state, histVars, dialed, sinkVars>>

\* t.Scan() called a second time, after the first call has returned: a new
\* frame (doneCount := 0, the loop counters) and a new ipChannel; the
\* scanner's own channels are the ones the first call left; the workers of
\* the first call have ended and the identities name the new goroutines
ScanAgain ==
    /\ scanPC = "returned"
    /\ sinkPC = "idle"
    /\ calls = 1
    /\ calls' = 2
    /\ scanPC' = "start"
    /\ launched' = 0 /\ icmpLaunched' = 0 /\ enqueued' = 0 /\ ipsSent' = 0
    /\ drained' = 0 /\ doneCount' = 0
    /\ ipChannel' = <<>> /\ ipClosed' = FALSE
    /\ pc' = [w \in AllWorkers |-> "unborn"]
    /\ UNCHANGED <<argDomain, argWorkers, portRange, lookupErr,
                   Domain, Ports, IPs, NumWorkers, mockVars,
                   PortChannel, portClosed, ResultChannel,
                   OpenPorts, openClosed, OpenPortsUDP, openUDPClosed,
                   ICMPResults, icmpClosed, Done,
                   cur, state, histVars, dialed, sinkVars>>

ReuseNext ==
    \/ Next
    \/ ScanAgain

\* a caller that may call Scan twice; scheduling as in FairSpec
ReuseSpec ==
    /\ Init
    /\ [][ReuseNext]_vars
    /\ WF_vars(ScanStep)
    /\ WF_vars(SinkStep)
    /\ \A w \in AllWorkers : WF_vars(WorkerStep(w))

\* The Go scheduler runs every runnable goroutine: main (in Scan, then in
\* writeResultsToFile) and each worker take a step whenever one stays enabled.
FairSpec ==
    /\ Init
    /\ [][Next]_vars
    /\ WF_vars(ScanStep)
    /\ WF_vars(SinkStep)
    /\ \A w \in AllWorkers : WF_vars(WorkerStep(w))

\* ------------------------------------------------ TestScan's mock workers
\* TestScan before ps.Scan(): NewTarget("example.com", n) succeeded, the
\* three mock workers are started, and the test's own ipChannel holds
\* every address and is closed.
MockInit ==
    /\ ProgramInit
    /\ argDomain = "example.com"
    /\ ~lookupErr
    /\ NumWorkers >= 1
    /\ mockPC = [m \in Mocks |-> "recv"]
    /\ mockCur = [m \in Mocks |-> 0]
    /\ testIPChannel = IPs

\* adds.ServiceVersion{Port: port, Service: name}
MockRecord(port, name) == [Port |-> port, Service |-> name, Response |-> ""]

\* "ICMP response from " + ip
MockICMPRecord(ip) == <<"ICMP response from ", ip>>

\* MockWorkerTCP / MockWorkerUDP: port := <-portChannel
MockRecvPort(m) ==
    /\ mockPC[m] = "recv"
    /\ PortChannel # <<>>
    /\ mockCur' = [mockCur EXCEPT ![m] = Head(PortChannel)]
    /\ PortChannel' = Dequeue(PortChannel)
    /\ mockPC' = [mockPC EXCEPT ![m] = "send"]
    /\ UNCHANGED <<scannerVars, sinkVars, dialed, scanVars, workerVars, histVars,
                   testIPChannel,
                   portClosed, ipChannel, ipClosed, ResultChannel,
                   OpenPorts, openClosed, OpenPortsUDP, openUDPClosed,
                   ICMPResults, icmpClosed, Done>>

\* MockWorkerTCP: openPorts <- adds.ServiceVersion{port, "mock-tcp-service"}
MockSendTCP ==
    /\ mockPC["tcp"] = "send"
    /\ IF openClosed
       THEN /\ mockPC' = [mockPC EXCEPT !["tcp"] = "panic"]
            /\ UNCHANGED <<OpenPorts, mockCur>>
       ELSE /\ Len(OpenPorts) < PortCap
            /\ OpenPorts' = Append(OpenPorts, MockRecord(mockCur["tcp"], "mock-tcp-service"))
            /\ mockCur' = Forget(mockCur, "tcp", 0)
            /\ mockPC' = [mockPC EXCEPT !["tcp"] = "recv"]
    /\ UNCHANGED <<scannerVars, sinkVars, dialed, scanVars, workerVars, histVars,
                   testIPChannel,
                   PortChannel, portClosed, ipChannel, ipClosed, ResultChannel,
                   openClosed, OpenPortsUDP, openUDPClosed,
                   ICMPResults, icmpClosed, Done>>

\* MockWorkerUDP: openPortsUDP <- adds.ServiceVersion{port, "mock-udp-service"}
MockSendUDP ==
    /\ mockPC["udp"] = "send"
    /\ IF openUDPClosed
       THEN /\ mockPC' = [mockPC EXCEPT !["udp"] = "panic"]
            /\ UNCHANGED <<OpenPortsUDP, mockCur>>
       ELSE /\ Len(OpenPortsUDP) < PortCap
            /\ OpenPortsUDP' = Append(OpenPortsUDP,
                                      MockRecord(mockCur["udp"], "mock-udp-service"))
            /\ mockCur' = Forget(mockCur, "udp", 0)
            /\ mockPC' = [mockPC EXCEPT !["udp"] = "recv"]
    /\ UNCHANGED <<scannerVars, sinkVars, dialed, scanVars, workerVars, histVars,
                   testIPChannel,
                   PortChannel, portClosed, ipChannel, ipClosed, ResultChannel,
                   OpenPorts, openClosed, openUDPClosed,
                   ICMPResults, icmpClosed, Done>>

\* MockWorkerICMP: ip := <-ipChannel   (the channel TestScan made)
MockRecvIP ==
    /\ mockPC["icmp"] = "recv"
    /\ testIPChannel # <<>>
    /\ mockCur' = [mockCur EXCEPT !["icmp"] = Head(testIPChannel)]
    /\ testIPChannel' = Dequeue(testIPChannel)
    /\ mockPC' = [mockPC EXCEPT !["icmp"] = "send"]
    /\ UNCHANGED <<scannerVars, sinkVars, dialed, scanVars, workerVars, histVars,
                   chanVars>>

\* MockWorkerICMP: icmpResults <- "ICMP response from " + ip
MockSendICMP ==
    /\ mockPC["icmp"] = "send"
    /\ IF icmpClosed
       THEN /\ mockPC' = [mockPC EXCEPT !["icmp"] = "panic"]
            /\ UNCHANGED <<ICMPResults, mockCur>>
       ELSE /\ Len(ICMPResults) < IPCap
            /\ ICMPResults' = Append(ICMPResults, MockICMPRecord(mockCur["icmp"]))
            /\ mockCur' = Forget(mockCur, "icmp", 0)
            /\ mockPC' = [mockPC EXCEPT !["icmp"] = "recv"]
    /\ UNCHANGED <<scannerVars, sinkVars, dialed, scanVars, workerVars, histVars,
                   testIPChannel,
                   PortChannel, portClosed, ipChannel, ipClosed, ResultChannel,
                   OpenPorts, openClosed, OpenPortsUDP, openUDPClosed,
                   icmpClosed, Done>>

\* a mock worker's range ends on its closed and empty queue; done <- true
MockDone(m, ch, closed) ==
    /\ mockPC[m] = "recv"
    /\ ch = <<>>
    /\ closed
    /\ Len(Done) < DoneCap
    /\ Done' = Append(Done, TRUE)
    /\ mockPC' = [mockPC EXCEPT ![m] = "exit"]
    /\ UNCHANGED <<scannerVars, sinkVars, dialed, scanVars, workerVars, histVars,
                   mockCur, testIPChannel,
                   PortChannel, portClosed, ipChannel, ipClosed, ResultChannel,
                   OpenPorts, openClosed, OpenPortsUDP, openUDPClosed,
                   ICMPResults, icmpClosed>>

\* (&MockWorkerTCP{}).Run(domain, ps.PortChannel, ps.ResultChannel, ps.OpenPorts, ps.Done, ...)
MockWorkerTCP ==
    \/ MockRecvPort("tcp")
    \/ MockSendTCP
    \/ MockDone("tcp", PortChannel, portClosed)

\* (&MockWorkerUDP{}).Run(domain, ps.PortChannel, ps.ResultChannel, ps.OpenPortsUDP, ps.Done, ...)
MockWorkerUDP ==
    \/ MockRecvPort("udp")
    \/ MockSendUDP
    \/ MockDone("udp", PortChannel, portClosed)

\* (&MockWorkerICMP{}).Run(ipChannel, ps.ICMPResults, ps.Done); TestScan
\* closed its ipChannel before it called Scan
MockWorkerICMP ==
    \/ MockRecvIP
    \/ MockSendICMP
    \/ MockDone("icmp", testIPChannel, TRUE)

\* TestScan: the mock workers run beside Scan and the workers Scan starts;
\* the test never calls writeResultsToFile
MockNext ==
    \/ ScanStep
    \/ \E w \in AllWorkers : WorkerStep(w)
    \/ MockWorkerTCP
    \/ MockWorkerUDP
    \/ MockWorkerICMP

\* every goroutine that can take a step is eventually scheduled
MockSpec ==
    /\ MockInit
    /\ [][MockNext]_vars
    /\ WF_vars(ScanStep)
    /\ \A w \in AllWorkers : WF_vars(WorkerStep(w))
    /\ WF_vars(MockWorkerTCP)
    /\ WF_vars(MockWorkerUDP)
    /\ WF_vars(MockWorkerICMP)

TypeOK ==
    /\ scanPC \in {"noTarget", "start", "ips", "wait", "closeUDP", "closeICMP",
                  "returned", "panic"}
    /\ sinkPC \in {"idle", "tcp", "udp", "icmp", "done", "failed"}
    /\ \A w \in AllWorkers :
           pc[w] \in {"unborn", "recv", "result", "open", "exit", "panic"}
    /\ \A m \in Mocks : mockPC[m] \in {"unborn", "recv", "send", "exit", "panic"}

\* ------------------------------------------------------ shared vocabulary
Launched(w) == pc[w] # "unborn"
Returned == scanPC = "returned"
SinkIdle == sinkPC = "idle"
NoPanic == scanPC # "panic" /\ \A w \in AllWorkers : pc[w] # "panic"
TokensSent == SumOver(doneSends, AllWorkers)
Classified(kind, p) == printed[<<kind, p, "Open">>] + printed[<<kind, p, "Closed">>]
Dequeued(p) == tcpRecv[p] + udpRecv[p]
\* the workers holding port p whose ResultChannel token is still to be sent
Owing(p) == {w \in PortWorkers : cur[w] = p /\ (pc[w] = "result" \/ (w \in UDPW /\ pc[w] = "open"))}
\* the number of service records for port p buffered on channel ch
CountPort(ch, p) == Cardinality({k \in 1..Len(ch) : ch[k].Port = p})
\* the workers of set W holding port p with probe result st
Holding(W, p, st) == {w \in W : cur[w] = p /\ state[w] = st}
InputDrained(w) ==
    IF w \in ICMPW THEN ipClosed /\ ipChannel = <<>>
    ELSE portClosed /\ PortChannel = <<>>

\* ------------------------------------------------------------------- C1
\* C1: under fair scheduling of Scan and of the workers, every run with
\* NumWorkers >= 1 (any non-empty IPs, any Ports, any probe outcomes)
\* reaches the return of Scan.
C1_ScanTerminates == (NumWorkers >= 1) => <>(scanPC = "returned")

C1_Witness ==
    /\ Returned
    /\ NumWorkers >= 1
    /\ Len(Ports) = MaxPorts
    /\ OpenPorts # <<>>
    /\ \E p \in PortUniverse : printed[<<"udp", p, "Closed">>] = 1
    /\ \E k \in 1..Len(ICMPResults) : ICMPResults[k][4] = "Unreachable"

\* ------------------------------------------------------------------- C2
\* C2: never more than 2*NumWorkers + len(IPs) completion tokens are sent;
\* once Scan has closed the first result channel it has received exactly
\* that many, exactly that many were sent, Done is empty and every launched
\* worker has sent its token and ended.
C2_DoneTokenCount ==
    /\ TokensSent <= 2 * NumWorkers + Len(IPs)
    /\ TokensSent = doneCount + Len(Done)
    /\ (openClosed \/ Returned) =>
          /\ doneCount = 2 * NumWorkers + Len(IPs)
          /\ TokensSent = 2 * NumWorkers + Len(IPs)
          /\ Done = <<>>
          /\ \A w \in AllWorkers : Launched(w) => pc[w] = "exit"

C2_Witness ==
    /\ openClosed /\ ~openUDPClosed
    /\ NumWorkers = MaxWorkers
    /\ Len(IPs) = MaxIPs
    /\ doneCount = 2 * MaxWorkers + MaxIPs

\* ------------------------------------------------------------------- C3
\* C3: no worker ever sends on a closed channel; when OpenPorts,
\* OpenPortsUDP or ICMPResults is closed every worker that writes to it has
\* sent its completion token, and every record the workers found is on the
\* channel (until writeResultsToFile starts taking them off).
C3_NoLateSend ==
    /\ NoPanic
    /\ openClosed =>
          /\ \A w \in TCPW : Launched(w) => doneSends[w] = 1
          /\ SinkIdle => Len(OpenPorts) = SumOver([p \in PortUniverse |-> tcpRecv[p] - printed[<<"tcp", p, "Closed">>]], PortUniverse)
    /\ openUDPClosed =>
          /\ \A w \in UDPW : Launched(w) => doneSends[w] = 1
          /\ SinkIdle => Len(OpenPortsUDP) = SumOver([p \in PortUniverse |-> udpRecv[p] - printed[<<"udp", p, "Closed">>]], PortUniverse)
    /\ icmpClosed =>
          /\ \A w \in ICMPW : Launched(w) => doneSends[w] = 1
          /\ SinkIdle => Len(ICMPResults) = Len(IPs)

C3_Witness ==
    /\ Returned
    /\ OpenPorts # <<>>
    /\ OpenPortsUDP # <<>>
    /\ Len(ICMPResults) = MaxIPs

\* ------------------------------------------------------------------- C4
\* C4 (as claimed): when Scan has returned, every port of Ports has exactly
\* one TCP classification and exactly one UDP classification recorded.
C4_BothProtocolsPerPort ==
    Returned =>
        \A p \in Range(Ports) : Classified("tcp", p) = 1 /\ Classified("udp", p) = 1

\* ------------------------------------------------------------------- C5
\* C5: a port value is never received twice from PortChannel, by the same
\* or by different workers, and once Scan has returned every port of Ports
\* was received exactly once, by a TCP worker or by a UDP worker.
C5_EachPortOnce ==
    /\ \A p \in PortUniverse : Dequeued(p) <= 1
    /\ \A p \in PortUniverse : Dequeued(p) = 1 => p \in Range(Ports)
    /\ (portClosed /\ PortChannel = <<>>) => \A p \in Range(Ports) : Dequeued(p) = 1

\* both outcomes of the race occur in one run
C5_Witness ==
    /\ Returned
    /\ \E p, q \in Range(Ports) : tcpRecv[p] = 1 /\ udpRecv[q] = 1

\* ------------------------------------------------------------------- C6
\* C6: each dequeued port gets exactly one ResultChannel token carrying it,
\* sent before the worker dequeues again, whatever the probe outcome; when
\* Scan has returned len(Ports) tokens were sent, Scan received len(Ports)
\* and ResultChannel is empty.
C6_ResultTokens ==
    /\ \A p \in PortUniverse :
          /\ resultTokens[p] = Dequeued(p) - Cardinality(Owing(p))
          /\ Cardinality({k \in 1..Len(ResultChannel) : ResultChannel[k] = p}) <= resultTokens[p]
    /\ Len(ResultChannel) + drained = SumOver(resultTokens, PortUniverse)
    /\ Returned =>
          /\ SumOver(resultTokens, PortUniverse) = Len(Ports)
          /\ drained = Len(Ports)
          /\ ResultChannel = <<>>

C6_Witness ==
    /\ Returned
    /\ Len(Ports) = MaxPorts
    /\ \E p \in PortUniverse : printed[<<"tcp", p, "Closed">>] = 1
    /\ \E p \in PortUniverse : printed[<<"udp", p, "Open">>] = 1

\* ------------------------------------------------------------------- C7
\* C7: a worker sends at most one completion token, only when its input
\* queue is closed and empty, and after it performs no channel operation;
\* when Scan has returned every launched worker has sent exactly one.
C7_CompletionOnce ==
    /\ \A w \in AllWorkers :
          /\ doneSends[w] <= 1
          /\ lateOps[w] = 0
          /\ doneSends[w] = 1 => (pc[w] = "exit" /\ InputDrained(w) /\ cur[w] = 0)
          /\ pc[w] = "exit" => doneSends[w] = 1
    /\ Returned => \A w \in AllWorkers : Launched(w) => doneSends[w] = 1

C7_Witness ==
    /\ \E w \in TCPW : doneSends[w] = 1 /\ tcpRecv[1] = 1
    /\ \E w \in UDPW : doneSends[w] = 1
    /\ \E w \in ICMPW : doneSends[w] = 1 /\ handled[w] >= 1
    /\ ~Returned

\* ------------------------------------------------------------------- C8
\* C8: PortChannel is closed only after every port was sent, the address
\* queue only after every address was sent and after PortChannel; a
\* completion token exists only once the worker's input is closed; the
\* three result channels are closed, in the order OpenPorts, OpenPortsUDP,
\* ICMPResults, only after all completion tokens were collected; Scan never
\* sends on a closed queue.
C8_Order ==
    /\ scanPC # "panic"
    /\ portClosed => (enqueued = Len(Ports) /\ launched = NumWorkers /\ icmpLaunched = Len(IPs))
    /\ ipClosed => (ipsSent = Len(IPs) /\ portClosed)
    /\ \A w \in PortWorkers : doneSends[w] > 0 => portClosed
    /\ \A w \in ICMPW : doneSends[w] > 0 => ipClosed
    /\ openClosed =>
          /\ ipClosed
          /\ drained = Len(Ports)
          /\ doneCount = 2 * NumWorkers + Len(IPs)
    /\ openUDPClosed => openClosed
    /\ icmpClosed => openUDPClosed

C8_Witness ==
    /\ Returned
    /\ Len(Ports) = MaxPorts
    /\ Len(IPs) = MaxIPs
    /\ NumWorkers = MaxWorkers

\* ------------------------------------------------------------------- C9
\* C9: at most one reachability record is ever sent per address, each by
\* one ICMP worker; when Scan has returned ICMPResults holds exactly
\* len(IPs) records, one for each entry of IPs.
C9_OneRecordPerAddress ==
    /\ \A a \in IPUniverse : icmpRecords[a] <= 1
    /\ \A a \in IPUniverse : icmpRecords[a] = 1 => a \in Range(IPs)
    /\ SumOver(handled, ICMPW) = SumOver(icmpRecords, IPUniverse)
    /\ SinkIdle => Len(ICMPResults) = SumOver(icmpRecords, IPUniverse)
    /\ (Returned /\ SinkIdle) =>
          /\ Len(ICMPResults) = Len(IPs)
          /\ \A a \in Range(IPs) :
                Cardinality({k \in 1..Len(ICMPResults) : ICMPResults[k][2] = a}) = 1

C9_Witness ==
    /\ Returned
    /\ Len(IPs) = MaxIPs
    /\ \E k \in 1..Len(ICMPResults) : ICMPResults[k][4] = "Reachable"
    /\ \E k \in 1..Len(ICMPResults) : ICMPResults[k][4] = "Unreachable"

\* ------------------------------------------------------------------ C10
\* C10 (as claimed): when Scan has returned, every ICMP worker it launched
\* has emitted exactly one reachability record and one completion token.
C10_OneAddressPerWorker ==
    Returned =>
        \A w \in ICMPW : Launched(w) => (handled[w] = 1 /\ doneSends[w] = 1)

\* C10 (amended): Scan launches exactly len(IPs) ICMP workers on the one
\* shared address queue; each sends at most one completion token, after
\* all of its records; a worker may emit zero, one or several records, and
\* when Scan has returned the workers together have emitted exactly
\* len(IPs) records and each has sent exactly one completion token.
C10_ICMPWorkersShareQueue ==
    /\ Cardinality({w \in ICMPW : Launched(w)}) = icmpLaunched
    /\ icmpLaunched <= Len(IPs)
    /\ scanPC # "start" => icmpLaunched = Len(IPs)
    /\ \A w \in ICMPW :
          /\ doneSends[w] <= 1
          /\ lateOps[w] = 0
          /\ handled[w] <= Len(IPs)
    /\ SumOver(handled, ICMPW) <= Len(IPs)
    /\ Returned =>
          /\ SumOver(handled, ICMPW) = Len(IPs)
          /\ \A w \in ICMPW : Launched(w) => doneSends[w] = 1

\* one worker took two addresses, another none
C10_Witness ==
    /\ Returned
    /\ \E v, w \in ICMPW : Launched(v) /\ Launched(w) /\ handled[v] = 2 /\ handled[w] = 0
\* ------------------------------------------------------------------ C11
\* C11: a service record is sent exactly for the probes that returned Open:
\* while no record has been taken off the channels, OpenPorts holds for each
\* port one record per finished Open TCP probe of it and OpenPortsUDP one
\* per Open UDP probe whose worker is past its send; a port dequeued by a
\* TCP worker has no record on OpenPortsUDP and one dequeued by a UDP worker
\* none on OpenPorts, a Closed probe leaves no record on either channel,
\* and no port has more than one record in all.
C11_RecordIffOpen ==
    SinkIdle =>
      \A p \in PortUniverse :
        /\ CountPort(OpenPorts, p) = printed[<<"tcp", p, "Open">>]
        /\ CountPort(OpenPortsUDP, p) =
              printed[<<"udp", p, "Open">>]
              + Cardinality({w \in Holding(UDPW, p, "Open") : pc[w] = "result"})
        /\ CountPort(OpenPorts, p)
              <= tcpRecv[p] - printed[<<"tcp", p, "Closed">>]
                 - Cardinality(Holding(TCPW, p, "Closed"))
        /\ CountPort(OpenPortsUDP, p)
              <= udpRecv[p] - printed[<<"udp", p, "Closed">>]
                 - Cardinality(Holding(UDPW, p, "Closed"))
        /\ CountPort(OpenPorts, p) + CountPort(OpenPortsUDP, p) <= 1

C11_Witness ==
    /\ SinkIdle
    /\ \E p \in PortUniverse, q \in PortUniverse :
          /\ CountPort(OpenPorts, p) = 1
          /\ tcpRecv[p] = 1
          /\ printed[<<"udp", q, "Closed">>] = 1
          /\ CountPort(OpenPortsUDP, q) = 0 /\ CountPort(OpenPorts, q) = 0

\* ------------------------------------------------------------------ C12
\* C12: at any time every service record buffered on OpenPorts or on
\* OpenPortsUDP carries a port that Scan has enqueued on PortChannel, and
\* its service name is the lookup table's entry for that port ("Unknown"
\* when the table has none).
C12_RecordsOfEnqueuedPorts ==
    \A r \in Range(OpenPorts) \cup Range(OpenPortsUDP) :
        /\ r.Port \in {Ports[k] : k \in 1..enqueued}
        /\ r.Service = IF r.Port \in DOMAIN Services
                       THEN Services[r.Port]
                       ELSE "Unknown"

C12_Witness ==
    /\ \E k \in 1..Len(OpenPorts) : OpenPorts[k].Service = "tcpmux"
    /\ \E k \in 1..Len(OpenPortsUDP) : OpenPortsUDP[k].Service = "Unknown"

\* ------------------------------------------------------------------ C13
\* C13 (as claimed): with Ports overridden to two ports, the first (port 80)
\* accepting TCP connections and the second (port 9999) refusing them, when
\* Scan has returned OpenPorts holds a record for the first port and none
\* for the second.  "Accepting" and "refusing" constrain the TCP probes that
\* were made: none of the first port came back Closed, none of the second
\* came back Open.
C13_ListeningPortReported ==
    ( /\ Returned /\ SinkIdle
      /\ Ports = <<1, 2>>
      /\ printed[<<"tcp", 1, "Closed">>] = 0
      /\ printed[<<"tcp", 2, "Open">>] = 0 )
    => /\ CountPort(OpenPorts, 1) >= 1
       /\ CountPort(OpenPorts, 2) = 0

\* ------------------------------------------------------------------ C15
\* C15: when net.LookupHost fails NewTarget returns no scanner and main
\* stops there: at no time is a TCP, UDP or ICMP worker launched, a port or
\* an address enqueued, a channel closed, or the report created or written.
C15_NothingStartsWithoutTarget ==
    lookupErr =>
        /\ scanPC = "noTarget"
        /\ Ports = <<>> /\ IPs = <<>>
        /\ \A w \in AllWorkers : ~Launched(w)
        /\ launched = 0 /\ icmpLaunched = 0
        /\ enqueued = 0 /\ PortChannel = <<>> /\ ~portClosed
        /\ ipsSent = 0 /\ ipChannel = <<>> /\ ~ipClosed
        /\ sinkPC = "idle" /\ file = <<>>

C15_Witness ==
    /\ lookupErr
    /\ scanPC = "noTarget"
    /\ argWorkers = MaxWorkers
    /\ portRange = MaxPorts

\* ------------------------------------------------------------------ C16
\* the records emitted during the scan, per section of the report
EmittedTCP == SumOver([p \in PortUniverse |-> printed[<<"tcp", p, "Open">>]], PortUniverse)
EmittedUDP == SumOver([p \in PortUniverse |-> printed[<<"udp", p, "Open">>]], PortUniverse)
EmittedICMP == SumOver(icmpRecords, IPUniverse)
SinkEnded == sinkPC \in {"done", "failed"}

\* output.txt is the whole report: the TCP header, one TCP line per record
\* emitted on OpenPorts, the UDP header, one UDP line per record emitted on
\* OpenPortsUDP, the ICMP header, one line per reachability record
FileComplete ==
    LET nT == EmittedTCP
        nU == EmittedUDP
        nI == EmittedICMP
        secT == 2..(1 + nT)
        secU == (3 + nT)..(2 + nT + nU)
        secI == (4 + nT + nU)..(3 + nT + nU + nI)
    IN  /\ Len(file) = 3 + nT + nU + nI
        /\ file[1] = HeaderTCP
        /\ file[2 + nT] = HeaderUDP
        /\ file[3 + nT + nU] = HeaderICMP
        /\ \A k \in secT : Len(file[k]) = 5 /\ file[k][3] = " (TCP) is Open, Service: "
        /\ \A k \in secU : Len(file[k]) = 5 /\ file[k][3] = " (UDP) is Open, Service: "
        /\ \A k \in secI : Len(file[k]) = 5 /\ file[k][1] = "IP: "
        /\ \A p \in PortUniverse :
              /\ Cardinality({k \in secT : file[k][2] = p}) = printed[<<"tcp", p, "Open">>]
              /\ Cardinality({k \in secU : file[k][2] = p}) = printed[<<"udp", p, "Open">>]
        /\ \A a \in IPUniverse :
              Cardinality({k \in secI : file[k][2] = a}) = icmpRecords[a]

\* C16 (as claimed): writeResultsToFile always ends having written every
\* record emitted during the scan exactly once, in the section order TCP,
\* UDP, ICMP: whenever it has ended, output.txt is the whole report.
C16_SinkWritesEveryRecord == SinkEnded => FileComplete

\* C16 (amended): writeResultsToFile runs only after Scan has returned and,
\* under fair scheduling, always ends once Scan has returned.  It takes the
\* records off OpenPorts, then OpenPortsUDP, then ICMPResults; when it ends
\* without a file error the three channels are empty and output.txt is the
\* whole report, every emitted record written exactly once in the section
\* order TCP, UDP, ICMP; when os.Create or a write fails it ends at once
\* with the report incomplete.
C16_SinkDrainsInOrder ==
    /\ [](~SinkIdle => Returned)
    /\ [](sinkPC = "done" =>
            /\ OpenPorts = <<>> /\ OpenPortsUDP = <<>> /\ ICMPResults = <<>>
            /\ FileComplete)
    /\ [](sinkPC = "failed" => Len(file) < 3 + EmittedTCP + EmittedUDP + EmittedICMP)
    /\ [](sinkPC = "udp" => OpenPorts = <<>>)
    /\ [](sinkPC = "icmp" => OpenPorts = <<>> /\ OpenPortsUDP = <<>>)
    /\ (Returned ~> SinkEnded)

C16_Witness ==
    /\ sinkPC = "done"
    /\ EmittedTCP = 1 /\ EmittedUDP = 1 /\ EmittedICMP = MaxIPs
    /\ Len(file) = 5 + MaxIPs

\* ------------------------------------------------------------------ C17
\* the port worker w is the only one that has dequeued anything: Scan
\* launched one TCP/UDP pair and the other kind received no port
Alone(w) ==
    /\ NumWorkers = 1
    /\ Launched(w)
    /\ \A p \in PortUniverse : IF w \in TCPW THEN udpRecv[p] = 0 ELSE tcpRecv[p] = 0
\* the records of ch are in the order their ports have in Ports
InPortsOrder(ch) ==
    \A i \in 1..Len(ch), j \in 1..Len(ch) :
        i < j => \E a \in 1..Len(Ports), b \in 1..Len(Ports) :
                    a < b /\ Ports[a] = ch[i].Port /\ Ports[b] = ch[j].Port

\* C17: a port worker that runs alone on PortChannel sends its result tokens
\* in the order the ports were enqueued (ResultChannel, which Scan empties
\* first-in first-out, holds the tokens number drained+1, drained+2, ... of
\* Ports), sends its open-port records in that relative order, and has sent
\* the token and the record of every port, the last included, when it sends
\* its completion token.
C17_AloneKeepsOrder ==
    \A w \in PortWorkers :
        Alone(w) =>
            /\ drained + Len(ResultChannel) <= Len(Ports)
            /\ \A k \in 1..Len(ResultChannel) : ResultChannel[k] = Ports[drained + k]
            /\ SinkIdle => InPortsOrder(IF w \in TCPW THEN OpenPorts ELSE OpenPortsUDP)
            /\ doneSends[w] >= 1 =>
                  /\ cur[w] = 0
                  /\ \A p \in Range(Ports) :
                        /\ resultTokens[p] = 1
                        /\ Classified(w[1], p) = 1
                  /\ SinkIdle =>
                        \A p \in Range(Ports) :
                            CountPort(IF w \in TCPW THEN OpenPorts ELSE OpenPortsUDP, p)
                              = printed[<<w[1], p, "Open">>]

C17_Witness ==
    /\ Alone(<<"udp", 1>>)
    /\ ~Alone(<<"tcp", 1>>)
    /\ Len(Ports) = MaxPorts
    /\ Len(ResultChannel) = MaxPorts
    /\ Len(OpenPortsUDP) = MaxPorts
    /\ doneSends[<<"udp", 1>>] = 1
    /\ SinkIdle

\* ------------------------------------------------------------------ C18
\* C18: when the lookup succeeds the scanner NewTarget returns has Ports
\* exactly the sequence 1, 2, ..., N, N entries and each port once, where N
\* is the bound of NewTarget's loop (65535 in the source, portRange here);
\* its NumWorkers and Domain are the arguments and its IPs is not empty.
\* Scan never assigns a field, so this holds throughout.
C18_NewTargetFields ==
    ~lookupErr =>
        /\ Len(Ports) = portRange
        /\ \A k \in 1..portRange : Ports[k] = k
        /\ \A i \in 1..Len(Ports), j \in 1..Len(Ports) : i # j => Ports[i] # Ports[j]
        /\ NumWorkers = argWorkers
        /\ Domain = argDomain
        /\ IPs # <<>>

C18_Witness ==
    /\ ~lookupErr
    /\ scanPC = "start"
    /\ portRange = MaxPorts
    /\ Len(Ports) = MaxPorts
    /\ argWorkers = MaxWorkers
    /\ Domain = "example.com"

\* ------------------------------------------------------------------ C19
\* the hosts of the scan target: the Domain (a name) and the resolved IPs
\* (addresses); a probe's host is the name it was given
TargetHosts == {<<"name", Domain>>} \cup {<<"addr", IPs[k]>> : k \in 1..Len(IPs)}

\* C19 (as claimed): every TCP and UDP probe made during Scan dials the
\* Domain or one of the resolved IPs.
C19_ProbesAddressTarget ==
    \A d \in dialed : <<"name", d[2][1]>> \in TargetHosts

\* ------------------------------------------------------------------ C20
\* channel contents next are those now, or those now less the head
Shrinks(next, now) == next = now \/ (now # <<>> /\ next = Tail(now))

\* C20: a step that is not a step of Scan (a worker's, or the sink's) adds
\* nothing to PortChannel or to the address queue, taking at most their head,
\* and closes no channel; and once PortChannel is closed it stays closed and
\* every step leaves its contents as they are or removes the head.
C20_OnlyScanFeedsQueues ==
    [][ /\ (scanVars' = scanVars) =>
              /\ Shrinks(PortChannel', PortChannel)
              /\ Shrinks(ipChannel', ipChannel)
              /\ <<portClosed, ipClosed, openClosed, openUDPClosed, icmpClosed>>'
                    = <<portClosed, ipClosed, openClosed, openUDPClosed, icmpClosed>>
        /\ portClosed => (portClosed' /\ Shrinks(PortChannel', PortChannel))
      ]_vars

C20_Witness ==
    /\ portClosed
    /\ Len(Ports) = MaxPorts
    /\ Len(PortChannel) = MaxPorts - 1
    /\ Dequeued(Ports[1]) = 1
    /\ \E w \in PortWorkers : doneSends[w] = 0 /\ pc[w] = "recv"
    /\ \E w \in ICMPW : handled[w] = 1

C23_TokenAndRecordOrder ==
    /\ \A w \in TCPW :
          pc[w] = "open" =>
              /\ state[w] = "Open"
              /\ resultTokens[cur[w]] = 1
              /\ CountPort(OpenPorts, cur[w]) = 0
    /\ \A w \in UDPW :
          /\ pc[w] = "open" =>
                /\ state[w] = "Open"
                /\ resultTokens[cur[w]] = 0
                /\ CountPort(OpenPortsUDP, cur[w]) = 0
          /\ (pc[w] = "result" /\ state[w] = "Open") =>
                /\ resultTokens[cur[w]] = 0
                /\ CountPort(OpenPortsUDP, cur[w]) = 1
    /\ \A p \in PortUniverse :
          (SinkIdle /\ resultTokens[p] = 1 /\ printed[<<"udp", p, "Open">>] = 1)
              => CountPort(OpenPortsUDP, p) = 1
    /\ \A w \in PortWorkers :
          doneSends[w] >= 1 => (pc[w] = "exit" /\ cur[w] = 0 /\ state[w] = "none")

C23_Witness ==
    /\ SinkIdle
    /\ \E w \in TCPW : pc[w] = "open" /\ resultTokens[cur[w]] = 1
    /\ \E w \in UDPW, p \in PortUniverse :
          /\ doneSends[w] = 1
          /\ printed[<<"udp", p, "Open">>] = 1
          /\ CountPort(OpenPortsUDP, p) = 1

\* ------------------------------------------------------------------ C24
\* C24: with NumWorkers = 0 and Ports not empty Scan never returns: it never
\* gets past the wait for its first ResultChannel token, since no token is
\* ever sent, and it closes none of OpenPorts, OpenPortsUDP, ICMPResults.
C24_NoWorkersNoReturn ==
    (NumWorkers = 0 /\ Ports # <<>>) =>
        /\ scanPC \in {"start", "ips", "wait"}
        /\ drained = 0 /\ doneCount = 0
        /\ ResultChannel = <<>>
        /\ \A p \in PortUniverse : resultTokens[p] = 0 /\ Dequeued(p) = 0
        /\ ~openClosed /\ ~openUDPClosed /\ ~icmpClosed
        /\ SinkIdle

C24_Witness ==
    /\ NumWorkers = 0
    /\ Len(Ports) = MaxPorts
    /\ scanPC = "wait"
    /\ portClosed /\ PortChannel = Ports
    /\ ipClosed
    /\ \A w \in ICMPW : Launched(w) => pc[w] = "exit"
    /\ Len(Done) = Len(IPs)

\* ------------------------------------------------------------------ C25
\* C25: when Scan has returned it has launched NumWorkers TCP, NumWorkers
\* UDP and len(IPs) ICMP workers and each of them has ended; PortChannel,
\* the address queue, ResultChannel and Done are empty; every channel is
\* closed that Scan closes; and OpenPorts and OpenPortsUDP together hold at
\* most len(Ports) records.
C25_StateAtReturn ==
    Returned =>
        /\ launched = NumWorkers /\ icmpLaunched = Len(IPs)
        /\ \A w \in AllWorkers : Launched(w) => pc[w] = "exit"
        /\ Cardinality({w \in AllWorkers : Launched(w)}) = NumWorkers + NumWorkers + Len(IPs)
        /\ PortChannel = <<>> /\ ipChannel = <<>>
        /\ ResultChannel = <<>> /\ Done = <<>>
        /\ portClosed /\ ipClosed
        /\ openClosed /\ openUDPClosed /\ icmpClosed
        /\ Len(OpenPorts) + Len(OpenPortsUDP) <= Len(Ports)

C25_Witness ==
    /\ Returned /\ SinkIdle
    /\ NumWorkers = MaxWorkers
    /\ Len(IPs) = MaxIPs
    /\ Len(OpenPorts) + Len(OpenPortsUDP) = MaxPorts
    /\ Len(ICMPResults) = MaxIPs

\* ------------------------------------------------------------------ C26
\* C26: in a second call of Scan on a scanner with non-empty Ports, Scan
\* never gets past its first send on PortChannel: nothing is enqueued, no
\* worker of the second call receives a port or an address (so none is
\* probed: every port stays dequeued once, by the first call), Scan is at
\* its start or has panicked, never returned; and under fair scheduling it
\* does reach the panic of the send on the closed PortChannel.
C26_SecondScanPanics ==
    /\ []( (calls = 2 /\ Ports # <<>>) =>
              /\ portClosed
              /\ scanPC \in {"start", "panic"}
              /\ enqueued = 0 /\ PortChannel = <<>>
              /\ ipsSent = 0 /\ ipChannel = <<>>
              /\ \A w \in AllWorkers : pc[w] \in {"unborn", "recv", "exit"} /\ cur[w] = 0
              /\ \A p \in Range(Ports) : Dequeued(p) = 1
              /\ SumOver(icmpRecords, IPUniverse) = Len(IPs) )
    /\ ((calls = 2 /\ Ports # <<>>) ~> (scanPC = "panic"))

C26_Witness ==
    /\ calls = 2
    /\ Len(Ports) = MaxPorts
    /\ NumWorkers = MaxWorkers
    /\ scanPC = "panic"
    /\ \A w \in PortWorkers : pc[w] = "exit" /\ doneSends[w] = 2

\* C21: with TestScan's three mock workers started on the scanner's channels
\* before Scan is called, Scan still terminates: it returns.
C21_ScanReturnsBesideMocks == <>(scanPC = "returned")

====
